---- MODULE Spec2Model ----
(***************************************************************************)
(* Growth-Insights: the IP tracking middleware (middleware, getIpInfoFromIp,*)
(* saveIpInfoToDatabase, getUserIdFromRequest) and the map page (MapPage,  *)
(* fetchLocations and the marker effect), as state machines.               *)
(*                                                                         *)
(* Spec     : NumRequests requests handled concurrently by the middleware. *)
(* FairSpec : Spec, with the provider and the database always answering.    *)
(* MapSpec  : one mount of the map page over a bounded ip_info result.      *)
(***************************************************************************)
EXTENDS Integers, Sequences, FiniteSets, TLC

VARIABLES
  pc,            \* per request: "idle", "lookup" (fetch awaited), "save" (upsert awaited), "done"
  request,       \* per request: [path, xff, user_id] as received
  fetchResult,   \* per request: what fetch/res.json() produced (kept for the record)
  ipInfo,        \* per request: the value getIpInfoFromIp returned
  rowId,         \* per request: the id generated for its upsert, NoId if none
  upsertError,   \* per request: "pending", "none" or "error" (the error field of the upsert result)
  response,      \* per request: the response middleware returned, NoResponse until then
  calls,         \* per request: [provider, upsert] numbers of outbound calls issued
  errLog,        \* per request: the console.error messages written
  table,         \* ip_info: a function from the ids of its rows to the rows
  uuidCount,     \* number of ids crypto.randomUUID has handed out
  mapPc,         \* map page: "unmounted", "fetching", "effect", "idle"
  locations,     \* map page: the locations state (useState)
  fetched,       \* map page: the {data, error} the select returned
  markers,       \* map page: the markers on the map, in the order added
  mapCreated     \* map page: whether L.map("map") has been created

mwVars == <<pc, request, fetchResult, ipInfo, rowId, upsertError, response, calls, errLog,
            table, uuidCount>>
mapVars == <<mapPc, locations, fetched, markers, mapCreated>>
vars == <<pc, request, fetchResult, ipInfo, rowId, upsertError, response, calls, errLog,
          table, uuidCount, mapPc, locations, fetched, markers, mapCreated>>

(***************************************************************************)
(* Bounds.                                                                 *)
(***************************************************************************)
NumRequests == 2
MaxRows == 3

Requests == 1..NumRequests

(***************************************************************************)
(* Values.                                                                 *)
(***************************************************************************)
NoHeader == "<null>"             \* headers.get(...) of an absent header: null
Undefined == "<undefined>"       \* a property the object does not have
DbNull == "<NULL>"               \* a column the written row gave no value for
NoId == 0
NullInfo == [null |-> TRUE]      \* getIpInfoFromIp's null

Fields == {"ip", "hostname", "city", "region", "country", "loc", "org", "postal", "timezone"}

Paths == {"/", "/poem", "/monitoring", "/secret-admin"}
ForwardedFor == {NoHeader, "", "8.8.8.8"}
UserIdHeaders == {NoHeader}

FullPayload ==
  [ip |-> "8.8.8.8", hostname |-> "dns.google", city |-> "Mountain View",
   region |-> "California", country |-> "US", loc |-> "37.4,-122.07",
   org |-> "AS15169 Google LLC", postal |-> "94043", timezone |-> "America/Los_Angeles"]
PartialPayload == [ip |-> "8.8.8.8", bogon |-> "true"]
ErrorPayload == [status |-> "404", title |-> "Wrong ip"]

\* What `await fetch(...)` followed by `await res.json()` can produce: fetch
\* rejects; or it resolves with a status and a body that is not JSON, the
\* JSON value null, or a JSON object.
FetchOutcomes ==
  {[kind |-> "reject", status |-> 0, json |-> "none", data |-> NullInfo]}
  \cup {[kind |-> "response", status |-> 200, json |-> "object", data |-> d] :
          d \in {FullPayload, PartialPayload}}
  \cup {[kind |-> "response", status |-> 200, json |-> j, data |-> NullInfo] :
          j \in {"invalid", "null"}}
  \cup {[kind |-> "response", status |-> 500, json |-> "invalid", data |-> NullInfo]}
  \cup {[kind |-> "response", status |-> 404, json |-> "object", data |-> ErrorPayload]}
NoFetch == [kind |-> "none", status |-> 0, json |-> "none", data |-> NullInfo]

NoResponse == [kind |-> "none", status |-> 0, error |-> ""]
NextResponse == [kind |-> "next", status |-> 0, error |-> ""]
JsonResponse(err, st) == [kind |-> "json", status |-> st, error |-> err]

(***************************************************************************)
(* middleware: the route check and the header check.                       *)
(***************************************************************************)
\* variant: any path of the site passes (the check reduced to a prefix test)
PathAllowedPrefix(pathname) == pathname \in Paths

PathAllowed(pathname) ==
  ~(pathname # "/" /\ pathname # "/poem" /\ pathname # "/monitoring")

\* variant: ip === undefined, which headers.get never returns
IpMissingUndefined(ip) == ip = Undefined

\* !ip : null and the empty string are falsy
IpMissing(ip) == ip = NoHeader \/ ip = ""

getUserIdFromRequest(req) ==
  IF req.user_id = NoHeader \/ req.user_id = "" THEN "anonimo" ELSE req.user_id

(***************************************************************************)
(* getIpInfoFromIp: the value returned for an outcome of fetch + res.json.  *)
(***************************************************************************)
Prop(data, f) == IF f \in DOMAIN data THEN data[f] ELSE Undefined

getIpInfoFromIp(out) ==
  IF out.kind = "reject" THEN NullInfo             \* fetch threw: catch
  ELSE IF out.json = "invalid" THEN NullInfo       \* res.json() threw: catch
  ELSE IF out.json = "null" THEN NullInfo          \* data.ip on null threw: catch
  ELSE [f \in Fields |-> Prop(out.data, f)]

FetchThrows(out) == getIpInfoFromIp(out) = NullInfo

(***************************************************************************)
(* saveIpInfoToDatabase.                                                   *)
(***************************************************************************)
\* variant: one id generated at module load and reused
randomUUIDOnce(count) == 1

randomUUID(count) == count + 1

\* variant: hostname left out of the row
RowOfNoHostname(id, info) ==
  [f \in Fields \cup {"id"} |->
     IF f = "id" THEN id ELSE IF f = "hostname" THEN DbNull
     ELSE IF info[f] = Undefined THEN DbNull ELSE info[f]]

\* the row object handed to upsert; a property that is undefined is left out
\* of the JSON sent, so its column is NULL
Column(v) == IF v = Undefined THEN DbNull ELSE v

RowOf(id, info) == [f \in Fields \cup {"id"} |-> IF f = "id" THEN id ELSE Column(info[f])]

\* upsert on the primary key id: replaces the row with that id, or adds it
Upsert(t, row) == [i \in DOMAIN t \cup {row.id} |-> IF i = row.id THEN row ELSE t[i]]

(***************************************************************************)
(* Middleware actions.                                                     *)
(***************************************************************************)
MwInit ==
  /\ pc = [r \in Requests |-> "idle"]
  /\ request = [r \in Requests |-> [path |-> "/", xff |-> NoHeader, user_id |-> NoHeader]]
  /\ fetchResult = [r \in Requests |-> NoFetch]
  /\ ipInfo = [r \in Requests |-> NullInfo]
  /\ rowId = [r \in Requests |-> NoId]
  /\ upsertError = [r \in Requests |-> "none"]
  /\ response = [r \in Requests |-> NoResponse]
  /\ calls = [r \in Requests |-> [provider |-> 0, upsert |-> 0]]
  /\ errLog = [r \in Requests |-> {}]
  /\ table = [i \in {} |-> NullInfo]
  /\ uuidCount = 0

MapIdle ==
  /\ mapPc = "unmounted"
  /\ locations = <<>>
  /\ fetched = [error |-> FALSE, data |-> <<>>]
  /\ markers = <<>>
  /\ mapCreated = FALSE

\* middleware(request), from its entry to its first await or return
Middleware(r, req) ==
  /\ pc[r] = "idle"
  /\ request' = [request EXCEPT ![r] = req]
  /\ IF ~PathAllowed(req.path)
       THEN /\ response' = [response EXCEPT ![r] =
                              JsonResponse("Access to this endpoint is not allowed", 403)]
            /\ pc' = [pc EXCEPT ![r] = "done"]
            /\ calls' = calls
       ELSE IF IpMissing(req.xff)
         THEN /\ response' = [response EXCEPT ![r] = JsonResponse("IP nao encontrado", 400)]
              /\ pc' = [pc EXCEPT ![r] = "done"]
              /\ calls' = calls
         ELSE /\ response' = response
              /\ pc' = [pc EXCEPT ![r] = "lookup"]
              /\ calls' = [calls EXCEPT ![r].provider = @ + 1]
  /\ UNCHANGED <<fetchResult, ipInfo, rowId, upsertError, errLog, table, uuidCount>>
  /\ UNCHANGED mapVars

\* variant: saveIpInfoToDatabase is not awaited, the response is returned at once
LookupReturnsDetached(r, out) ==
  /\ pc[r] = "lookup"
  /\ fetchResult' = [fetchResult EXCEPT ![r] = out]
  /\ ipInfo' = [ipInfo EXCEPT ![r] = getIpInfoFromIp(out)]
  /\ errLog' = errLog
  /\ response' = [response EXCEPT ![r] = NextResponse]
  /\ IF getIpInfoFromIp(out) = NullInfo
       THEN /\ pc' = [pc EXCEPT ![r] = "done"]
            /\ UNCHANGED <<rowId, upsertError, calls, uuidCount>>
       ELSE /\ rowId' = [rowId EXCEPT ![r] = uuidCount + 1]
            /\ uuidCount' = uuidCount + 1
            /\ upsertError' = [upsertError EXCEPT ![r] = "pending"]
            /\ calls' = [calls EXCEPT ![r].upsert = @ + 1]
            /\ pc' = [pc EXCEPT ![r] = "save"]
  /\ UNCHANGED <<request, table>>
  /\ UNCHANGED mapVars

\* the provider answers (or the fetch fails): the rest of getIpInfoFromIp,
\* getUserIdFromRequest, and saveIpInfoToDatabase up to its await of upsert
LookupReturns(r, out) ==
  /\ pc[r] = "lookup"
  /\ fetchResult' = [fetchResult EXCEPT ![r] = out]
  /\ LET info == getIpInfoFromIp(out)
         user_id == getUserIdFromRequest(request[r])
     IN /\ ipInfo' = [ipInfo EXCEPT ![r] = info]
        /\ errLog' = IF FetchThrows(out)
                       THEN [errLog EXCEPT ![r] = @ \cup {"Erro ao buscar informacoes do IP"}]
                       ELSE errLog
        /\ IF info = NullInfo
             THEN \* if (!ipInfo) return;  then  return response;
                  /\ response' = [response EXCEPT ![r] = NextResponse]
                  /\ pc' = [pc EXCEPT ![r] = "done"]
                  /\ UNCHANGED <<rowId, upsertError, calls, uuidCount>>
             ELSE /\ rowId' = [rowId EXCEPT ![r] = randomUUID(uuidCount)]
                  /\ uuidCount' = uuidCount + 1
                  /\ upsertError' = [upsertError EXCEPT ![r] = "pending"]
                  /\ calls' = [calls EXCEPT ![r].upsert = @ + 1]
                  /\ pc' = [pc EXCEPT ![r] = "save"]
                  /\ response' = response
  /\ UNCHANGED <<request, table>>
  /\ UNCHANGED mapVars

\* variant: a rejected write is thrown, and the request ends in an error response
UpsertReturnsThrowing(r, ok) ==
  /\ pc[r] = "save"
  /\ table' = IF ok THEN Upsert(table, RowOf(rowId[r], ipInfo[r])) ELSE table
  /\ upsertError' = [upsertError EXCEPT ![r] = IF ok THEN "none" ELSE "error"]
  /\ errLog' = errLog
  /\ response' = [response EXCEPT ![r] =
                    IF ok THEN NextResponse ELSE JsonResponse("Internal Server Error", 500)]
  /\ pc' = [pc EXCEPT ![r] = "done"]
  /\ UNCHANGED <<request, fetchResult, ipInfo, rowId, calls, uuidCount>>
  /\ UNCHANGED mapVars

\* variant: a rejected write is issued once more
UpsertReturnsRetrying(r, ok) ==
  /\ pc[r] = "save"
  /\ IF ~ok /\ calls[r].upsert < 2
       THEN /\ calls' = [calls EXCEPT ![r].upsert = @ + 1]
            /\ UNCHANGED <<table, upsertError, errLog, response, pc>>
       ELSE /\ table' = IF ok THEN Upsert(table, RowOf(rowId[r], ipInfo[r])) ELSE table
            /\ upsertError' = [upsertError EXCEPT ![r] = IF ok THEN "none" ELSE "error"]
            /\ errLog' = errLog
            /\ response' = [response EXCEPT ![r] = NextResponse]
            /\ pc' = [pc EXCEPT ![r] = "done"]
            /\ calls' = calls
  /\ UNCHANGED <<request, fetchResult, ipInfo, rowId, uuidCount>>
  /\ UNCHANGED mapVars

\* the database answers the upsert: the rest of saveIpInfoToDatabase and of middleware
UpsertReturns(r, ok) ==
  /\ pc[r] = "save"
  /\ IF ok
       THEN /\ table' = Upsert(table, RowOf(rowId[r], ipInfo[r]))
            /\ upsertError' = [upsertError EXCEPT ![r] = "none"]
            /\ errLog' = errLog
       ELSE /\ table' = table
            /\ upsertError' = [upsertError EXCEPT ![r] = "error"]
            /\ errLog' = [errLog EXCEPT ![r] = @ \cup {"Erro ao salvar informacoes do IP no Supabase"}]
  /\ response' = [response EXCEPT ![r] = NextResponse]
  /\ pc' = [pc EXCEPT ![r] = "done"]
  /\ UNCHANGED <<request, fetchResult, ipInfo, rowId, calls, uuidCount>>
  /\ UNCHANGED mapVars

RequestSet == [path : Paths, xff : ForwardedFor, user_id : UserIdHeaders]

Init == MwInit /\ MapIdle

Next ==
  \/ \E r \in Requests, req \in RequestSet : Middleware(r, req)
  \/ \E r \in Requests, out \in FetchOutcomes : LookupReturns(r, out)
  \/ \E r \in Requests, ok \in BOOLEAN : UpsertReturns(r, ok)

Spec == Init /\ [][Next]_vars

\* the provider and the database answer every call
FairSpec ==
  /\ Spec
  /\ \A r \in Requests :
       /\ WF_vars(\E out \in FetchOutcomes : LookupReturns(r, out))
       /\ WF_vars(\E ok \in BOOLEAN : UpsertReturns(r, ok))

(***************************************************************************)
(* Map page: values.  A loc is null or a string, kept as its characters.    *)
(***************************************************************************)
NullLoc == [null |-> TRUE, chars |-> <<>>]
Str(cs) == [null |-> FALSE, chars |-> cs]

LocValues ==
  { NullLoc,
    Str(<<>>),
    Str(<<"3", "7", ",", "5">>),
    Str(<<"-", "2", "3", ",", "-", "4", "6">>),
    Str(<<"0", ",", "1", "0">>),
    Str(<<"5", ",", "-", "7">>) }

MapRows == [loc : LocValues, city : {"Mountain View"}, country : {"US"}, hostname : {"dns.google"}]

RECURSIVE SeqsUpTo(_, _)
SeqsUpTo(S, n) ==
  IF n = 0 THEN {<<>>}
  ELSE LET shorter == SeqsUpTo(S, n - 1)
       IN shorter \cup {Append(q, x) : q \in {t \in shorter : Len(t) = n - 1}, x \in S}

\* what supabase.from("ip_info").select(...) can resolve to
SelectResults ==
  {[error |-> TRUE, data |-> <<>>]}
  \cup {[error |-> FALSE, data |-> d] : d \in SeqsUpTo(MapRows, MaxRows)}

(***************************************************************************)
(* item.loc as a condition, loc.split(","), Number, [lat, lng] = ...        *)
(***************************************************************************)
\* variant: item.loc !== null, which lets the empty string through
TruthyNotNull(loc) == ~loc.null

Truthy(loc) == ~loc.null /\ loc.chars # <<>>

RECURSIVE Filter(_)
Filter(data) ==
  IF data = <<>> THEN <<>>
  ELSE IF Truthy(Head(data).loc) THEN <<Head(data)>> \o Filter(Tail(data))
  ELSE Filter(Tail(data))

\* String.prototype.split(","): the pieces between the commas, in order
RECURSIVE SplitFrom(_, _)
SplitFrom(cs, piece) ==
  IF cs = <<>> THEN <<piece>>
  ELSE IF Head(cs) = "," THEN <<piece>> \o SplitFrom(Tail(cs), <<>>)
  ELSE SplitFrom(Tail(cs), Append(piece, Head(cs)))

Split(cs) == SplitFrom(cs, <<>>)

Digits == {"0", "1", "2", "3", "4", "5", "6", "7", "8", "9"}
DigitValue(c) ==
  CASE c = "0" -> 0 [] c = "1" -> 1 [] c = "2" -> 2 [] c = "3" -> 3 [] c = "4" -> 4
    [] c = "5" -> 5 [] c = "6" -> 6 [] c = "7" -> 7 [] c = "8" -> 8 [] c = "9" -> 9

RECURSIVE Decimal(_, _)
Decimal(cs, acc) ==
  IF cs = <<>> THEN acc ELSE Decimal(Tail(cs), 10 * acc + DigitValue(Head(cs)))

NaN == [kind |-> "NaN", val |-> 0]
UndefinedNumber == [kind |-> "undefined", val |-> 0]
Num(n) == [kind |-> "number", val |-> n]

AllDigits(cs) == cs # <<>> /\ \A i \in 1..Len(cs) : cs[i] \in Digits

\* Number(string), for strings of digits and "-"
Number(cs) ==
  IF cs = <<>> THEN Num(0)
  ELSE IF AllDigits(cs) THEN Num(Decimal(cs, 0))
  ELSE IF Head(cs) = "-" /\ AllDigits(Tail(cs)) THEN Num(0 - Decimal(Tail(cs), 0))
  ELSE NaN

NumberAll(pieces) == [i \in 1..Len(pieces) |-> Number(pieces[i])]

\* array destructuring: an index past the end gives undefined
Element(arr, i) == IF i <= Len(arr) THEN arr[i] ELSE UndefinedNumber

\* L.marker([lat, lng], ...).addTo(map).bindPopup(...) for one location
MarkerOf(item) ==
  LET parts == NumberAll(Split(item.loc.chars))
  IN [lat |-> Element(parts, 1), lng |-> Element(parts, 2),
      city |-> item.city, country |-> item.country, hostname |-> item.hostname]

MarkersOf(locs) == [i \in 1..Len(locs) |-> MarkerOf(locs[i])]

(***************************************************************************)
(* Map page actions.                                                       *)
(***************************************************************************)
\* first render: both effects run; locations is empty, so the second does nothing
Mount ==
  /\ mapPc = "unmounted"
  /\ mapPc' = "fetching"
  /\ UNCHANGED <<locations, fetched, markers, mapCreated>>
  /\ UNCHANGED mwVars

\* the select resolves: the rest of fetchLocations
FetchLocationsReturns(res) ==
  /\ mapPc = "fetching"
  /\ fetched' = res
  /\ IF res.error
       THEN /\ locations' = locations
            /\ mapPc' = "idle"
       ELSE /\ locations' = Filter(res.data)
            /\ mapPc' = "effect"
  /\ UNCHANGED <<markers, mapCreated>>
  /\ UNCHANGED mwVars

\* the effect on [locations], run by the render that follows setLocations
MarkersEffect ==
  /\ mapPc = "effect"
  /\ IF Len(locations) > 0
       THEN /\ mapCreated' = TRUE
            /\ markers' = MarkersOf(locations)
       ELSE UNCHANGED <<mapCreated, markers>>
  /\ mapPc' = "idle"
  /\ UNCHANGED <<locations, fetched>>
  /\ UNCHANGED mwVars

\* the page is left: the effect's cleanup, map.remove(), and the state is dropped
Unmount ==
  /\ mapPc = "idle"
  /\ mapPc' = "unmounted"
  /\ locations' = <<>>
  /\ fetched' = [error |-> FALSE, data |-> <<>>]
  /\ markers' = <<>>
  /\ mapCreated' = FALSE
  /\ UNCHANGED mwVars

MapNext ==
  \/ Mount
  \/ \E res \in SelectResults : FetchLocationsReturns(res)
  \/ MarkersEffect
  \/ Unmount

MapSpec == Init /\ [][MapNext]_vars

(***************************************************************************)
(* Vocabulary of the properties, stated without the model's operators.     *)
(***************************************************************************)
AllowList == {"/", "/poem", "/monitoring"}
Started(r) == pc[r] # "idle"
Forbidden403(resp) == resp.kind = "json" /\ resp.status = 403
BadRequest400(resp) == resp.kind = "json" /\ resp.status = 400
PassThrough(resp) == resp.kind = "next"
NoSideEffects(r) == calls[r].provider = 0 /\ calls[r].upsert = 0 /\ rowId[r] = NoId

\* the provider call succeeded: a 2xx answer carrying a JSON object
LookupSucceeded(r) ==
  /\ fetchResult[r].kind = "response"
  /\ fetchResult[r].status \in 200..299
  /\ fetchResult[r].json = "object"
\* the provider call was answered, or failed, without success
LookupFailed(r) == fetchResult[r].kind # "none" /\ ~LookupSucceeded(r)
WriteSucceeded(r) == pc[r] = "done" /\ calls[r].upsert > 0 /\ upsertError[r] = "none"
WriteFailed(r) == pc[r] = "done" /\ calls[r].upsert > 0 /\ upsertError[r] = "error"

(***************************************************************************)
(* C1. A request whose path is not /, /poem or /monitoring is answered     *)
(* with status 403, whatever its headers, and causes no provider call and  *)
(* no ip_info write.                                                       *)
(***************************************************************************)
C1_ForbiddenPath ==
  \A r \in Requests :
    (Started(r) /\ request[r].path \notin AllowList) =>
      /\ pc[r] = "done"
      /\ Forbidden403(response[r])
      /\ NoSideEffects(r)
      /\ \A i \in DOMAIN table : \A q \in Requests : rowId[q] = i => q # r

C1_Witness ==
  /\ \E r \in Requests :
       /\ pc[r] = "done" /\ request[r].path = "/secret-admin"
       /\ request[r].xff = "8.8.8.8" /\ Forbidden403(response[r])
  /\ \E r \in Requests :
       /\ pc[r] = "done" /\ request[r].path = "/secret-admin"
       /\ request[r].xff = NoHeader /\ Forbidden403(response[r])

(***************************************************************************)
(* C2. A request on an allowed path with no x-forwarded-for header is       *)
(* answered with status 400, and causes no provider call and no write.      *)
(***************************************************************************)
C2_MissingHeader ==
  \A r \in Requests :
    (Started(r) /\ request[r].path \in AllowList /\ request[r].xff = NoHeader) =>
      /\ pc[r] = "done"
      /\ BadRequest400(response[r])
      /\ NoSideEffects(r)

C2_Witness ==
  \E r \in Requests :
    /\ pc[r] = "done" /\ request[r].path = "/poem" /\ request[r].xff = NoHeader
    /\ BadRequest400(response[r])

(***************************************************************************)
(* C3. Whenever the provider call fails (network error, malformed          *)
(* response, non-success status), getIpInfoFromIp yields no result, no      *)
(* storage write is attempted, and the original response is returned.       *)
(***************************************************************************)
C3_FailedLookupWritesNothing ==
  \A r \in Requests :
    LookupFailed(r) =>
      /\ ipInfo[r] = NullInfo
      /\ calls[r].upsert = 0
      /\ pc[r] = "done"
      /\ PassThrough(response[r])

(***************************************************************************)
(* C4. When the provider call succeeds with a full payload and the store   *)
(* accepts the write, the step that completes the write adds exactly one   *)
(* row to ip_info, under an id no row had and no other request was given,  *)
(* with the nine fields equal to the payload's; no other step of the       *)
(* request touches the table.                                              *)
(***************************************************************************)
FullLookup(r) == LookupSucceeded(r) /\ fetchResult[r].data = FullPayload

C4_OneNewRow ==
  [][\A r \in Requests :
       /\ (FullLookup(r) /\ pc[r] = "save" /\ pc'[r] = "done" /\ upsertError'[r] = "none") =>
            \E id \in DOMAIN table' :
              /\ id \notin DOMAIN table
              /\ DOMAIN table' = DOMAIN table \cup {id}
              /\ \A i \in DOMAIN table : table'[i] = table[i]
              /\ table'[id].id = id
              /\ \A q \in Requests \ {r} : rowId[q] # id
              /\ \A f \in Fields : table'[id][f] = FullPayload[f]
       /\ (pc[r] # "save" /\ pc'[r] # pc[r]) => table' = table
    ]_vars

C4_Witness ==
  \E r \in Requests :
    /\ FullLookup(r) /\ WriteSucceeded(r)
    /\ rowId[r] \in DOMAIN table
    /\ table[rowId[r]].city = "Mountain View"

(***************************************************************************)
(* C5 (as stated). Every request on an allowed path with a forwarding-     *)
(* address header value ends with the pass-through response.                *)
(***************************************************************************)
C5_Original ==
  \A r \in Requests :
    (pc[r] = "done" /\ request[r].path \in AllowList /\ request[r].xff # NoHeader) =>
      PassThrough(response[r])

(***************************************************************************)
(* C5 (amended). Every request on an allowed path with a non-empty         *)
(* forwarding-address header value ends with the pass-through response,    *)
(* never an error response, whether the lookup failed, the write failed or *)
(* the write succeeded; a rejected write is logged and nothing else.        *)
(***************************************************************************)
C5_PassThrough ==
  \A r \in Requests :
    (pc[r] = "done" /\ request[r].path \in AllowList /\ request[r].xff \notin {NoHeader, ""}) =>
      /\ PassThrough(response[r])
      /\ WriteFailed(r) => (errLog[r] # {} /\ rowId[r] \notin DOMAIN table)

C5_Witness ==
  /\ \E r \in Requests : WriteFailed(r) /\ PassThrough(response[r])
  /\ \E r \in Requests : pc[r] = "done" /\ fetchResult[r].kind = "reject"
                         /\ PassThrough(response[r])

(***************************************************************************)
(* C6. Two identical allowed requests with the same forwarding-address     *)
(* value, each with a successful lookup and write, leave two distinct rows *)
(* with different ids, each holding what its own request wrote.             *)
(***************************************************************************)
WroteRow(r) ==
  /\ rowId[r] \in DOMAIN table
  /\ table[rowId[r]].id = rowId[r]
  /\ \A f \in Fields \cap DOMAIN fetchResult[r].data : table[rowId[r]][f] = fetchResult[r].data[f]

C7_Original ==
  \A r \in Requests :
    (Started(r) /\ request[r].path \in AllowList /\ request[r].xff # NoHeader) =>
      calls[r].provider = 1 /\ calls[r].upsert <= 1

(***************************************************************************)
(* C7 (amended). Each request with an allowed path and a non-empty header  *)
(* value causes exactly one provider call and at most one write attempt;   *)
(* neither is repeated, whatever the lookup or the write returned.          *)
(***************************************************************************)
C7_OneCallEach ==
  \A r \in Requests :
    (Started(r) /\ request[r].path \in AllowList /\ request[r].xff \notin {NoHeader, ""}) =>
      /\ calls[r].provider = 1
      /\ calls[r].upsert <= 1

C7_Witness ==
  /\ \E r \in Requests : WriteFailed(r) /\ calls[r].provider = 1 /\ calls[r].upsert = 1
  /\ \E r \in Requests : LookupFailed(r) /\ pc[r] = "done" /\ calls[r].provider = 1

(***************************************************************************)
(* C8. After the map page has fetched ip_info without error, the map holds *)
(* exactly one marker per fetched row whose loc is non-empty, in order, at *)
(* the latitude and longitude written in loc, and none for a row whose loc *)
(* is empty or missing.                                                    *)
(***************************************************************************)
\* the coordinates each loc of LocValues denotes
Coordinates(cs) ==
  CASE cs = <<"3", "7", ",", "5">> -> <<37, 5>>
    [] cs = <<"-", "2", "3", ",", "-", "4", "6">> -> <<-23, -46>>
    [] cs = <<"0", ",", "1", "0">> -> <<0, 10>>
    [] cs = <<"5", ",", "-", "7">> -> <<5, -7>>

HasLoc(row) == row.loc.null = FALSE /\ Len(row.loc.chars) > 0

C8_OneMarkerPerLoc ==
  (mapPc = "idle" /\ ~fetched.error) =>
    LET withLoc == SelectSeq(fetched.data, HasLoc)
    IN /\ Len(markers) = Len(withLoc)
       /\ \A k \in 1..Len(withLoc) :
            /\ markers[k].lat.kind = "number"
            /\ markers[k].lng.kind = "number"
            /\ markers[k].lat.val = Coordinates(withLoc[k].loc.chars)[1]
            /\ markers[k].lng.val = Coordinates(withLoc[k].loc.chars)[2]

C8_Witness ==
  /\ mapPc = "idle" /\ ~fetched.error
  /\ Len(fetched.data) = 3
  /\ fetched.data[1].loc = NullLoc
  /\ fetched.data[2].loc.chars = <<"-", "2", "3", ",", "-", "4", "6">>
  /\ fetched.data[3].loc = Str(<<>>)
  /\ Len(markers) = 1

(***************************************************************************)
(* C9. Within one request the write is attempted only after the lookup has *)
(* completed; the pass-through response is released only after the lookup  *)
(* and, when attempted, the write have completed; while a call is          *)
(* unanswered the request has no response and only the answer moves it;    *)
(* and when the provider and the database answer, the request completes:   *)
(* it does not stay waiting on a call (a request never returns to idle).    *)
(***************************************************************************)
C9_Sequential ==
  /\ [](\A r \in Requests :
          /\ calls[r].upsert > 0 => fetchResult[r].kind # "none"
          /\ pc[r] \in {"lookup", "save"} => response[r] = NoResponse
          /\ PassThrough(response[r]) =>
               /\ fetchResult[r].kind # "none"
               /\ upsertError[r] # "pending"
               /\ pc[r] = "done")
  /\ [][\A r \in Requests :
          /\ (pc[r] = "lookup" /\ pc'[r] # "lookup") => fetchResult'[r] # fetchResult[r]
          /\ (pc[r] = "save" /\ pc'[r] # "save") => upsertError'[r] # upsertError[r]
       ]_vars
  /\ \A r \in Requests : <>[](pc[r] \in {"idle", "done"})

C9_Witness ==
  \E r \in Requests :
    /\ pc[r] = "done" /\ PassThrough(response[r])
    /\ LookupSucceeded(r) /\ WriteSucceeded(r)

(***************************************************************************)
(* C10. When every request has been handled, ip_info holds exactly one row *)
(* per request whose lookup and write both succeeded, and no step of one   *)
(* request changes or removes a row or a step of another.                   *)
(***************************************************************************)
C10_Independent ==
  (\A r \in Requests : pc[r] = "done") =>
    /\ \A r \in Requests : (LookupSucceeded(r) /\ WriteSucceeded(r)) => WroteRow(r)
    /\ \A i \in DOMAIN table :
         \E r \in Requests : rowId[r] = i /\ LookupSucceeded(r) /\ WriteSucceeded(r)
    /\ Cardinality(DOMAIN table) =
         Cardinality({r \in Requests : LookupSucceeded(r) /\ WriteSucceeded(r)})

====
